---- MODULE Spec2Model ----
(***************************************************************************)
(* Model of package errs (src/errs.go): the err struct, its constructors   *)
(* New, UserError, Format and Wrap, the in-place merge mergeIn, and the    *)
(* accessors.  Info maps are heap objects (Go maps are references), so a   *)
(* map handed to a constructor is shared with the caller and with every    *)
(* other err built from it.                                                *)
(***************************************************************************)
EXTENDS Integers, Sequences, FiniteSets, TLC

(* ---------------------------------------------------------------- bounds *)
MaxCalls == 3       \* API calls in one run
MaxErrs == 2        \* err values constructed in one run
MaxKeys == 4        \* entries of e.info and of info together in a merge
MaxRevisit == 1     \* entries created during a range that the range also yields

(* ------------------------------------------------------------ value sets *)
Nil == "<nil>"                       \* the nil interface{} value stored in a map
NilInfo == 0                         \* the nil Info map (no heap object)
Suffix == "_duplicate"               \* errs.go:176
Separator == " - "                   \* errs.go:186

\* An error value is a (dynamic type, identity) pair.
NilErr == [kind |-> "nil", ref |-> 0]          \* the nil error interface
StdErr == [kind |-> "std", ref |-> 1]          \* errors.New("It broke!")
FmtErr == [kind |-> "std", ref |-> 2]          \* the value fmt.Errorf returns
ForeignErr == [kind |-> "foreign", ref |-> 1]  \* another type implementing Err
ErrRef(i) == [kind |-> "err", ref |-> i]       \* *err pointing at errs[i]

\* Info literals a caller writes, e.g. errs.Info{"Key": "First"}.
InfoLits ==
    { ("K" :> "a"),
      ("K" :> Nil),
      ("K" :> "b") @@ ("K_duplicate" :> "a") }

\* Variadic publicMsg arguments a caller passes.
PartsArgs == { <<>>, <<"">>, <<"m1">>, <<"m2", "m3">> }

VARIABLES
    maps,     \* heap of Info maps: id -> (key -> value)
    errs,     \* heap of err structs: id -> struct
    clock,    \* what time.Now() returns next
    call,     \* the last API call and how it ended
    ncalls,   \* API calls made so far
    hist      \* per err: what its callers have supplied to it so far

vars == <<maps, errs, clock, call, ncalls, hist>>

(* --------------------------------------------------------------- helpers *)

\* Go map read: a missing key reads as the zero value, nil.
Lookup(m, key) == IF key \in DOMAIN m THEN m[key] ELSE Nil

\* Go map write m[key] = val.
Store(m, key, val) == (key :> val) @@ m

RECURSIVE Suffixed(_, _)
\* key followed by n copies of "_duplicate".
Suffixed(key, n) == IF n = 0 THEN key ELSE Suffixed(key, n - 1) \o Suffix

\* debug.Stack() as called in fn: the snapshot names the capturing frame.
debugStack(fn) == <<"runtime/debug.Stack", fn>>

RECURSIVE concatArgs(_)
\* fmt.Sprintln puts a space between all operands and a newline at the end;
\* concatArgs strips the newline.
concatArgs(args) ==
    IF args = <<>> THEN ""
    ELSE IF Len(args) = 1 THEN args[1]
    ELSE args[1] \o " " \o concatArgs(Tail(args))

\* Mutant of newErr: the wrapped error is not stored.
newErrDropsWrapped(stack, wrappedErr, isUserErr, info, publicMsgParts) ==
    [ stack      |-> stack,
      time       |-> clock,
      wrappedErr |-> NilErr,
      isUserErr  |-> isUserErr,
      info       |-> info,
      publicMsg  |-> concatArgs(publicMsgParts) ]

\* &err{stack, time.Now(), wrappedErr, isUserErr, info, publicMsg}
newErr(stack, wrappedErr, isUserErr, info, publicMsgParts) ==
    [ stack      |-> stack,
      time       |-> clock,
      wrappedErr |-> wrappedErr,
      isUserErr  |-> isUserErr,
      info       |-> info,
      publicMsg  |-> concatArgs(publicMsgParts) ]

\* err.(Err): the dynamic type implements the Err interface.
IsErr(e) == e.kind \in {"err", "foreign"}

RECURSIVE freeKey(_, _)
\* for e.info[key] != nil { key = key + "_duplicate" }
freeKey(m, key) ==
    IF Lookup(m, key) # Nil THEN freeKey(m, key \o Suffix) ELSE key

\* Mutant of mergeEntry: on a collision the incoming value is dropped.
mergeEntryKeepsOld(m, key, val) ==
    IF Lookup(m, key) # Nil THEN m ELSE Store(m, key, val)

\* The body of the range loop for the entry (key, val): e.info[key] = val
\* under the first key that reads nil.
mergeEntry(m, key, val) == Store(m, freeKey(m, key), val)

RECURSIVE rangeInfo(_, _, _, _, _, _)
\* for key, val := range info { ... }: the set of maps the loop can end with.
\* Go yields the entries in an unspecified order.  When info is e.info itself
\* (aliased) the loop reads the map it writes: an entry created during the
\* range may be yielded or skipped, and a value is read when it is yielded.
\*   m      e.info so far          inc     the incoming map (unused if aliased)
\*   must   entries still to yield seen    keys already yielded
\*   more   created entries the range may still yield
rangeInfo(m, inc, aliased, must, seen, more) ==
    LET src == IF aliased THEN m ELSE inc
        created == DOMAIN src \ (seen \cup must)
    IN  (IF must = {} THEN {m} ELSE {})
        \cup UNION { rangeInfo(mergeEntry(m, k, src[k]), inc, aliased,
                               must \ {k}, seen \cup {k}, more) : k \in must }
        \cup (IF more > 0
              THEN UNION { rangeInfo(mergeEntry(m, k, src[k]), inc, aliased,
                                     must, seen \cup {k}, more - 1) : k \in created }
              ELSE {})

\* Mutant of mergeMsg: the new message is put behind the existing one.
mergeMsgAppends(publicMsg, publicMsgParts) ==
    LET publicMsgPrefix == concatArgs(publicMsgParts)
    IN  IF publicMsgPrefix = "" THEN publicMsg
        ELSE IF publicMsg = "" THEN publicMsgPrefix
        ELSE publicMsg \o Separator \o publicMsgPrefix

\* Mutant of mergeMsg: the prefix and the separator are added unconditionally.
mergeMsgAlwaysJoins(publicMsg, publicMsgParts) ==
    concatArgs(publicMsgParts) \o Separator \o publicMsg

\* The message half of mergeIn.
mergeMsg(publicMsg, publicMsgParts) ==
    LET publicMsgPrefix == concatArgs(publicMsgParts)
    IN  IF publicMsgPrefix = "" THEN publicMsg
        ELSE IF publicMsg = "" THEN publicMsgPrefix
        ELSE publicMsgPrefix \o Separator \o publicMsg

\* Mutant of mergeIn: the merge takes a new timestamp.
mergeInRestamps(e, inc, aliased, publicMsgParts) ==
    LET merged == [e EXCEPT !.publicMsg = mergeMsg(e.publicMsg, publicMsgParts),
                            !.time = clock]
    IN  IF e.info = NilInfo
        THEN IF DOMAIN inc # {}
             THEN { [panic |-> TRUE, e |-> e, info |-> <<>>] }
             ELSE { [panic |-> FALSE, e |-> merged, info |-> <<>>] }
        ELSE { [panic |-> FALSE, e |-> merged, info |-> m] :
               m \in rangeInfo(maps[e.info], inc, aliased,
                               DOMAIN (IF aliased THEN maps[e.info] ELSE inc),
                               {}, MaxRevisit) }

\* Mutant of mergeIn: the merged value is no longer a user error.
mergeInClearsUserErr(e, inc, aliased, publicMsgParts) ==
    LET merged == [e EXCEPT !.publicMsg = mergeMsg(e.publicMsg, publicMsgParts),
                            !.isUserErr = FALSE]
    IN  IF e.info = NilInfo
        THEN IF DOMAIN inc # {}
             THEN { [panic |-> TRUE, e |-> e, info |-> <<>>] }
             ELSE { [panic |-> FALSE, e |-> merged, info |-> <<>>] }
        ELSE { [panic |-> FALSE, e |-> merged, info |-> m] :
               m \in rangeInfo(maps[e.info], inc, aliased,
                               DOMAIN (IF aliased THEN maps[e.info] ELSE inc),
                               {}, MaxRevisit) }

\* (e *err) mergeIn(info, publicMsgParts): the set of ways the call can end,
\* each with the struct and the contents of e.info it leaves.  e is the
\* struct, inc the contents of info, aliased whether info is e.info itself.
\* A write to the nil map panics, and nothing was changed before it.
mergeIn(e, inc, aliased, publicMsgParts) ==
    LET merged == [e EXCEPT !.publicMsg = mergeMsg(e.publicMsg, publicMsgParts)]
    IN  IF e.info = NilInfo
        THEN IF DOMAIN inc # {}
             THEN { [panic |-> TRUE, e |-> e, info |-> <<>>] }
             ELSE { [panic |-> FALSE, e |-> merged, info |-> <<>>] }
        ELSE { [panic |-> FALSE, e |-> merged, info |-> m] :
               m \in rangeInfo(maps[e.info], inc, aliased,
                               DOMAIN (IF aliased THEN maps[e.info] ELSE inc),
                               {}, MaxRevisit) }

(* ------------------------------------------------------------- accessors *)
Stack(i) == errs[i].stack
Time(i) == errs[i].time
WrappedError(i) == errs[i].wrappedErr
PublicMsg(i) == errs[i].publicMsg
IsUserError(i) == errs[i].isUserErr
AllInfo(i) == IF errs[i].info = NilInfo THEN <<>> ELSE maps[errs[i].info]
Info(i, key) ==
    IF errs[i].info = NilInfo THEN Nil ELSE Lookup(maps[errs[i].info], key)

\* The same two accessors through the Err interface.  A value of another type
\* answers from its own state, which nothing in this package can reach: here
\* it holds no info and no message.
InfoOf(v, key) == IF v.kind = "err" THEN Info(v.ref, key) ELSE Nil
PublicMsgOf(v) == IF v.kind = "err" THEN PublicMsg(v.ref) ELSE ""

(* ---------------------------------------------------------------- inputs *)

\* The info argument of a call: nil, a fresh literal, or a map the caller
\* already holds (from AllInfo, or one it passed to an earlier call).
NilArg == [src |-> "nil", lit |-> <<>>, id |-> NilInfo]
LitArg(c) == [src |-> "lit", lit |-> c, id |-> NilInfo]
RefArg(i) == [src |-> "ref", lit |-> <<>>, id |-> i]
InfoArgs ==
    {NilArg} \cup { LitArg(c) : c \in InfoLits }
             \cup { RefArg(i) : i \in DOMAIN maps }

\* The (info, publicMsg...) argument lists of a call: info alone, a message
\* alone, and both together as in errs.New(errs.Info{"Key": "First"}, publicMsg).
CallArgs ==
    { <<info, <<>>>> : info \in InfoArgs }
    \cup { <<NilArg, publicMsg>> : publicMsg \in PartsArgs }
    \cup { <<LitArg("K" :> "a"), <<"m1">>>> }

\* The argument lists UserError is called with: a message for the user, with
\* or without info.
UserArgs ==
    { <<NilArg, publicMsg>> : publicMsg \in PartsArgs }
    \cup { <<LitArg("K" :> "a"), <<"m1">>>> }

\* The info Format is called with: nil or a literal.
FormatInfos == {NilArg} \cup { LitArg(c) : c \in InfoLits }

\* The error values a caller can pass to Wrap.
Candidates ==
    {NilErr, StdErr, ForeignErr} \cup { ErrRef(i) : i \in DOMAIN errs }

\* The contents of an info argument (a nil map ranges as the empty map).
Contents(arg) == IF arg.src = "ref" THEN maps[arg.id] ELSE arg.lit

\* The heap once the argument has been evaluated, and the reference it yields.
HeapWith(arg) == IF arg.src = "lit" THEN Append(maps, arg.lit) ELSE maps
RefOf(arg) ==
    CASE arg.src = "nil" -> NilInfo
      [] arg.src = "lit" -> Len(maps) + 1
      [] arg.src = "ref" -> arg.id

\* What the callers supplied to an err, as the history keeps it:
\*   made   the entry point that constructed the err
\*   passed the error passed to that entry point (nil when it takes none)
\*   born   the time and the stack snapshot taken at construction
\*   msgs   the non-empty messages supplied, oldest first
\*   frags  whether any publicMsg argument was ever passed
\*   keyed  v1..vn while every info so far was a single entry {"K": v_i}
\*   last   the contents of the info and the message of the latest call
Supplied(made, passed, inc, parts) ==
    [ made   |-> made,
      passed |-> passed,
      born   |-> [time |-> clock, stack |-> debugStack(made)],
      msgs   |-> IF concatArgs(parts) = "" THEN <<>> ELSE <<concatArgs(parts)>>,
      frags  |-> parts # <<>>,
      keyed  |-> IF DOMAIN inc = {"K"} THEN <<inc["K"]>> ELSE <<>>,
      last   |-> [inc |-> inc, msg |-> concatArgs(parts)] ]

\* The record of a call: the entry point, the error passed to it (Wrap
\* only), and either the value it returned or the fact that it panicked.
Returned(op, cand, ret) ==
    [ op |-> op, cand |-> cand, out |-> "return", ret |-> ret ]

Panicked(op, cand) ==
    [ op |-> op, cand |-> cand, out |-> "panic", ret |-> NilErr ]

(* ------------------------------------------------------------------ Init *)
Init ==
    /\ maps = <<>>
    /\ errs = <<>>
    /\ clock = 1
    /\ hist = <<>>
    /\ ncalls = 0
    /\ call = Returned("none", NilErr, NilErr)

(* --------------------------------------------------------------- actions *)

\* Every API call counts towards the length of the run.
Called == ncalls < MaxCalls /\ ncalls' = ncalls + 1

\* return newErr(debug.Stack(), wrappedErr, isUserErr, info, publicMsg):
\* a new struct on the heap; time.Now() has moved on when the next one is made.
\* passed is the error the caller gave the entry point, for the history.
Construct(fn, passed, wrappedErr, isUserErr, info, publicMsg) ==
    /\ Len(errs) < MaxErrs
    /\ maps' = HeapWith(info)
    /\ errs' = Append(errs, newErr(debugStack(fn), wrappedErr, isUserErr,
                                   RefOf(info), publicMsg))
    /\ clock' = clock + 1
    /\ hist' = Append(hist, Supplied(fn, passed, Contents(info), publicMsg))

\* func New(info Info, publicMsg ...interface{}) Err
New ==
    /\ Called
    /\ \E args \in CallArgs :
        /\ Construct("New", NilErr, NilErr, FALSE, args[1], args[2])
        /\ call' = Returned("New", NilErr, ErrRef(Len(errs) + 1))

\* func UserError(info Info, publicMsg ...interface{}) Err
UserError ==
    /\ Called
    /\ \E args \in UserArgs :
        /\ Construct("UserError", NilErr, NilErr, TRUE, args[1], args[2])
        /\ call' = Returned("UserError", NilErr, ErrRef(Len(errs) + 1))

\* func Format(info Info, format string, argv ...interface{}) Err
\* fmt.Errorf(format, argv...) is one opaque error value; publicMsg is nil.
Format ==
    /\ Called
    /\ \E info \in FormatInfos :
        /\ Construct("Format", NilErr, FmtErr, FALSE, info, <<>>)
        /\ call' = Returned("Format", NilErr, ErrRef(Len(errs) + 1))

\* Mutant of WrapNil: the nil error is wrapped like any other.
WrapNilWraps(wrapErr, info, publicMsg) ==
    /\ wrapErr = NilErr
    /\ Construct("Wrap", wrapErr, wrapErr, FALSE,
                 IF info.src = "nil" THEN LitArg(<<>>) ELSE info, publicMsg)
    /\ call' = Returned("Wrap", wrapErr, ErrRef(Len(errs) + 1))

\* Wrap, wrapErr == nil: return nil.
WrapNil(wrapErr, info, publicMsg) ==
    /\ wrapErr = NilErr
    /\ call' = Returned("Wrap", wrapErr, NilErr)
    /\ UNCHANGED <<maps, errs, clock, hist>>

\* Wrap, wrapErr is a *err: mergeIn and return the same pointer.
WrapMerge(wrapErr, info, publicMsg) ==
    /\ IsErr(wrapErr) /\ wrapErr.kind = "err"
    /\ LET i == wrapErr.ref
           e == errs[i]
           inc == Contents(info)       \* info == nil has become Info{}
           aliased == info.src = "ref" /\ info.id = e.info
       IN  /\ e.info # NilInfo =>
                Cardinality(DOMAIN maps[e.info]) + Cardinality(DOMAIN inc) <= MaxKeys
           /\ \E o \in mergeIn(e, inc, aliased, publicMsg) :
                IF o.panic
                THEN /\ call' = Panicked("Wrap", wrapErr)
                     /\ UNCHANGED <<maps, errs, clock, hist>>
                ELSE /\ maps' = IF e.info = NilInfo THEN maps
                                ELSE [maps EXCEPT ![e.info] = o.info]
                     /\ errs' = [errs EXCEPT ![i] = o.e]
                     /\ hist' = [hist EXCEPT
                           ![i].msgs = @ \o Supplied("", NilErr, inc, publicMsg).msgs,
                           ![i].frags = @ \/ publicMsg # <<>>,
                           ![i].keyed = IF @ # <<>> /\ DOMAIN inc = {"K"}
                                        THEN Append(@, inc["K"]) ELSE <<>>,
                           ![i].last = Supplied("", NilErr, inc, publicMsg).last]
                     /\ call' = Returned("Wrap", wrapErr, wrapErr)
                     /\ UNCHANGED clock

\* Wrap, wrapErr implements Err but is not a *err: return it as it is.
WrapForeign(wrapErr, info, publicMsg) ==
    /\ IsErr(wrapErr) /\ wrapErr.kind # "err"
    /\ call' = Returned("Wrap", wrapErr, wrapErr)
    /\ UNCHANGED <<maps, errs, clock, hist>>

\* Wrap, any other error: a new err around it (info == nil has become Info{}).
WrapNew(wrapErr, info, publicMsg) ==
    /\ wrapErr # NilErr /\ ~IsErr(wrapErr)
    /\ Construct("Wrap", wrapErr, wrapErr, FALSE,
                 IF info.src = "nil" THEN LitArg(<<>>) ELSE info, publicMsg)
    /\ call' = Returned("Wrap", wrapErr, ErrRef(Len(errs) + 1))

\* func Wrap(wrapErr error, info Info, publicMsg ...interface{}) Err
Wrap ==
    /\ Called
    /\ \E wrapErr \in Candidates, args \in CallArgs :
        \/ WrapNil(wrapErr, args[1], args[2])
        \/ WrapMerge(wrapErr, args[1], args[2])
        \/ WrapForeign(wrapErr, args[1], args[2])
        \/ WrapNew(wrapErr, args[1], args[2])

Next == New \/ UserError \/ Format \/ Wrap

Spec == Init /\ [][Next]_vars

\* The last step was a call of Wrap on wrapErr.
WrapStep(wrapErr) ==
    ncalls' = ncalls + 1 /\ call'.op = "Wrap" /\ call'.cand = wrapErr

TypeOK ==
    /\ Len(errs) <= MaxErrs
    /\ Len(hist) = Len(errs)
    /\ ncalls <= MaxCalls
    /\ \A i \in DOMAIN errs : errs[i].info \in {NilInfo} \cup DOMAIN maps

(* ---------------------------------------------------------------- claims *)

\* The keys of a map whose values the step keeps.
Kept(m, n) == \A key \in DOMAIN m : key \in DOMAIN n /\ n[key] = m[key]

\* C1: a merge never overwrites or removes an entry of info: every key that
\* is in the info map of an err before a step is in it afterwards, with the
\* same value, also when that value is nil.
C1_MergeKeepsEveryEntry ==
    [][\A i \in DOMAIN errs : Kept(AllInfo(i), AllInfo(i)')]_vars

\* C2: an err constructed with {K: v1} and re-wrapped with {K: v2}, ...,
\* {K: vn} holds v_i under K followed by i-1 copies of "_duplicate", and
\* Info(K) is v1.
C2_SuffixChain ==
    \A i \in DOMAIN errs :
        LET vs == hist[i].keyed
        IN  vs # <<>> =>
              /\ Info(i, "K") = vs[1]
              /\ \A j \in DOMAIN vs :
                    /\ Suffixed("K", j - 1) \in DOMAIN AllInfo(i)
                    /\ AllInfo(i)[Suffixed("K", j - 1)] = vs[j]

\* What C3 asks of a Wrap on w with the contents inc and the message msg:
\* afterwards every incoming value is read through w under its key or under
\* that key with suffixes, and the message leads PublicMsg.
Observable(w, inc, msg) ==
    /\ \A key \in DOMAIN inc :
          \E n \in 0 .. (MaxKeys + MaxRevisit) :
              InfoOf(w, Suffixed(key, n))' = inc[key]
    /\ msg # "" =>
          PublicMsgOf(w)' \in {msg, msg \o Separator \o PublicMsgOf(w)}

\* The step is a call of Wrap on w, a candidate that IsErr recognizes.
WrapOnRecognized(w) == WrapStep(w) /\ IsErr(w)

C4_NoCallPanics == call.out # "panic"

RECURSIVE NewestFirst(_)
\* The messages of msgs (oldest first) joined newest first with " - ".
NewestFirst(msgs) ==
    IF msgs = <<>> THEN ""
    ELSE IF Len(msgs) = 1 THEN msgs[1]
    ELSE msgs[Len(msgs)] \o " - " \o NewestFirst(SubSeq(msgs, 1, Len(msgs) - 1))

\* C5: PublicMsg() is the non-empty messages supplied at construction and in
\* the merges, newest first, separated by " - "; a message merged into an
\* empty one is the whole message.
C5_MessagesNewestFirst ==
    \A i \in DOMAIN errs : PublicMsg(i) = NewestFirst(hist[i].msgs)

\* Three messages have been supplied to one err, not all the same.
C5_Witness ==
    \E i \in DOMAIN errs :
        /\ Len(hist[i].msgs) = 3
        /\ hist[i].msgs[1] # hist[i].msgs[2]
        /\ call = Returned("Wrap", ErrRef(i), ErrRef(i))

\* C6: a step that supplies no non-empty message to an err (a merge whose
\* fragments are none or join to "", whatever its info) leaves PublicMsg() as
\* it was; and PublicMsg() is "" while no fragment was ever passed.
C6_EmptyMessageKeepsPublicMsg ==
    /\ [](\A i \in DOMAIN errs : ~hist[i].frags => PublicMsg(i) = "")
    /\ [][\A i \in DOMAIN errs :
            hist[i].msgs' = hist[i].msgs => PublicMsg(i)' = PublicMsg(i)]_vars

\* An err made with {"K": "a"} and "m1" was then merged with {"K": nil} and
\* no fragment: the message is still "m1".
C6_Witness ==
    \E i \in DOMAIN errs :
        /\ call = Returned("Wrap", ErrRef(i), ErrRef(i))
        /\ hist[i].keyed = <<"a", Nil>>
        /\ PublicMsg(i) = "m1"

\* C7: Wrap(nil, ...) returns nil whatever info and fragments it is given,
\* and constructs or changes no err.
C7_WrapNilReturnsNil ==
    [][WrapStep(NilErr) =>
          /\ call'.out = "return" /\ call'.ret = NilErr
          /\ UNCHANGED <<maps, errs>>]_vars

\* Wrap(nil, ...) has returned while an err exists.
C7_Witness ==
    /\ call = Returned("Wrap", NilErr, NilErr)
    /\ errs # <<>>

C9_WrappedErrorIsWhatWasPassed ==
    \A i \in DOMAIN errs :
        /\ hist[i].made \in {"New", "UserError"} => WrappedError(i) = NilErr
        /\ hist[i].made = "Wrap" =>
              /\ WrappedError(i) = hist[i].passed
              /\ WrappedError(i) # NilErr

\* A Wrap has merged into an err that wraps the standard error.
C9_Witness ==
    \E i \in DOMAIN errs :
        /\ call = Returned("Wrap", ErrRef(i), ErrRef(i))
        /\ hist[i].made = "Wrap"
        /\ WrappedError(i) = StdErr
        /\ hist[i].msgs # <<>>

\* C10: Time() and Stack() are those taken at construction, after any merges.
C10_TimeAndStackFixed ==
    \A i \in DOMAIN errs :
        /\ Time(i) = hist[i].born.time
        /\ Stack(i) = hist[i].born.stack

\* A Wrap has merged into an err after time.Now() had moved on, from another
\* frame than the one that constructed it.
C10_Witness ==
    \E i \in DOMAIN errs :
        /\ call = Returned("Wrap", ErrRef(i), ErrRef(i))
        /\ Time(i) + 1 < clock
        /\ hist[i].made = "New"
        /\ hist[i].msgs # <<>>

\* The step is Wrap(ErrRef(i), args...) ending in a merge into errs[i].
MergeInto(i, args) ==
    WrapStep(ErrRef(i)) /\ WrapMerge(ErrRef(i), args[1], args[2])

\* C11: the info mapping of an err changes only through a merge into that
\* same err: a step that is not a Wrap on it leaves its mapping as it was,
\* and a merge leaves the Info map it was given as it was.
C11_InfoChangesOnlyByOwnMerge ==
    [][/\ \A i \in DOMAIN errs :
             AllInfo(i)' # AllInfo(i) => WrapStep(ErrRef(i))
       /\ \A i \in DOMAIN errs, info \in InfoArgs :
             (info.src = "ref" /\ MergeInto(i, <<info, <<>>>>)) =>
                 maps'[info.id] = maps[info.id]]_vars

\* The ways Wrap(ErrRef(i), args...) can end from the current state: what
\* mergeIn yields for the calls WrapMerge takes.
MergeOutcomes(i, args) ==
    LET e == errs[i]
        inc == Contents(args[1])
        aliased == args[1].src = "ref" /\ args[1].id = e.info
    IN  IF e.info # NilInfo
           /\ Cardinality(DOMAIN maps[e.info]) + Cardinality(DOMAIN inc) > MaxKeys
        THEN {}
        ELSE mergeIn(e, inc, aliased, args[2])

\* C12: a merge has one result whatever the order in which the range yields
\* the incoming entries: from every state, for every err and every argument
\* list, all the ways the merge can end leave the same info mapping.
C12_MergeOrderIrrelevant ==
    \A i \in DOMAIN errs, args \in CallArgs :
        \A o1, o2 \in MergeOutcomes(i, args) : o1.info = o2.info

====
